---- MODULE Spec2Model ----
(***************************************************************************)
(* A model of the align-anything cookbooks and of the text-video-to-action *)
(* SFT configuration:                                                      *)
(*   - cookbooks/zh/text_image_to_text_sft.ipynb : the step-by-step cells  *)
(*     and the "complete code" cell, run by one statement interpreter;     *)
(*   - the AA_TI2T chat template shown in that notebook;                   *)
(*   - configs/train/text_video_to_action/sft.yaml, read line by line;     *)
(*   - cookbooks/zh/text_to_text_dpo.ipynb : the code cells, run in order. *)
(* Each part has its own specification over the shared variables; the     *)
(* variables of the other parts stay at their idle values.                 *)
(***************************************************************************)
EXTENDS Integers, Sequences, FiniteSets, TLC

VARIABLES
    \* ---- SFT notebook (text_image_to_text_sft.ipynb) ----
    prog,       \* which program runs: "cells" (cells 3-14) or "script" (cell 16)
    pc,         \* [phase, i]: position of the interpreter in the program
    rawLen,     \* number of samples found at the dataset path (input)
    dsLen,      \* len(train_dataset)
    loader,     \* train_dataloader: [batch_size, len], len = -1 before it is built
    epoch,      \* 1-based number of the running epoch, 0 before the loop
    order,      \* the sampler's order for the running epoch
    pos,        \* samples of `order` already handed out
    nbatch,     \* ordinal of the current batch within the epoch
    batch,      \* the current batch: [samples, keys]
    mode,       \* "unloaded" | "eval" | "train"
    params,     \* version of the model parameters = optimizer steps applied
    grads,      \* "none" | "zero" | "fresh"
    loss,       \* the last computed loss: [params, samples]
    losses,     \* the deque of recorded losses: [maxlen, items]
    bar,        \* progress bar: [total, n]
    disk,       \* ./output: per component, the epoch of its last completed save
    trace,      \* log of every executed statement
    draws,      \* the orders the sampler drew, by epoch (replayed by the script)
    trace1,     \* the log of the finished cells run
    failure,    \* where an exception was raised: [phase, i], phase "" when none
    \* ---- chat template ----
    rawSamples, \* the raw records
    formatter,  \* the AA_TI2T instance
    formatted,  \* log of format_supervised_sample calls
    \* ---- sft.yaml ----
    yline,      \* next line of sft.yaml to read
    ysection,   \* the open top-level section, "" when none
    ycfg,       \* settings read so far: set of [section, key]
    \* ---- DPO notebook ----
    dpc,        \* [cell, i, status]: position in the DPO notebook
    denv,       \* the other names the cells bind: device, model_path, messages, input_text
    dmodel,     \* the object bound to `model`
    dtok,       \* the object bound to `tokenizer`
    nograd,     \* inside `with torch.no_grad()`
    dinputs,    \* inputs['input_ids'][0]
    doutput,    \* output[0]
    dtext,      \* generated_text
    dprinted,   \* what the notebook printed
    dtrace      \* log of executed DPO statements

trainVars == <<prog, pc, rawLen, dsLen, loader, epoch, order, pos, nbatch, batch,
               mode, params, grads, loss, losses, bar, disk, trace, draws, trace1, failure>>
fmtVars == <<rawSamples, formatter, formatted>>
yamlVars == <<yline, ysection, ycfg>>
dpoVars == <<dpc, denv, dmodel, dtok, nograd, dinputs, doutput, dtext, dprinted, dtrace>>
vars == <<trainVars, fmtVars, yamlVars, dpoVars>>
notTrain == <<fmtVars, yamlVars, dpoVars>>
notFmt == <<trainVars, yamlVars, dpoVars>>
notYaml == <<trainVars, fmtVars, dpoVars>>
notDpo == <<trainVars, fmtVars, yamlVars>>

(***************************************************************************)
(* Bounds of the model.                                                    *)
(***************************************************************************)
MaxRaw == 2

Min(a, b) == IF a < b THEN a ELSE b
Range(s) == {s[j] : j \in DOMAIN s}

(***************************************************************************)
(* Statements.  A statement is [op, n, s]: the callee, its numeric         *)
(* argument (0 when none) and its string argument ("" when none).          *)
(***************************************************************************)
St(op) == [op |-> op, n |-> 0, s |-> ""]
StN(op, n) == [op |-> op, n |-> n, s |-> ""]
StS(op, s) == [op |-> op, n |-> 0, s |-> s]
NoStmt == St("")

\* Cells 3-13: load, device, optimizer, template, dataset, dataloader, and the
\* three statements before the loop in cell 14.
CellsSetup ==
    << StS("load_pretrained_models", "/path/to/llava-1.5-7b-hf"),
       St("to_device"),
       St("AdamW"),
       StS("ChatTemplate", "AA_TI2T"),
       StN("SupervisedDataset", 1000),
       StS("RandomSampler", "train_dataset"),
       StN("DataLoader", 1),
       StN("tqdm", 3),
       StN("deque", 100),
       StS("makedirs", "./output") >>

\* Mutant: for epoch in range(2).
CellsEpochsShort == 3 - 1

\* for epoch in range(3)
CellsEpochs == 3

CellsHead == << St("set_description") >>

\* Mutant: the model save indented into the inner loop.
CellsBodySavingInside ==
    << St("pop_meta_info"), St("train"), St("forward"), St("zero_grad"),
       St("backward"), St("step"), St("append_loss"), StN("update", 1),
       St("set_postfix"), StS("save_model", "./output") >>

\* Mutant: the batch goes to the model as the collator made it.
CellsBodyKeepingMetaInfo ==
    << St("train"), St("forward"), St("zero_grad"),
       St("backward"), St("step"), St("append_loss"), StN("update", 1),
       St("set_postfix") >>

CellsBody ==
    << St("pop_meta_info"), St("train"), St("forward"), St("zero_grad"),
       St("backward"), St("step"), St("append_loss"), StN("update", 1),
       St("set_postfix") >>

CellsTail ==
    << StS("save_model", "./output"), StS("save_tokenizer", "./output"),
       StS("save_processor", "./output") >>

\* Cell 16, the complete code.
ScriptSetup ==
    << StS("load_pretrained_models", "/path/to/llava-1.5-7b-hf"),
       St("to_device"),
       St("AdamW"),
       StS("ChatTemplate", "AA_TI2T"),
       StN("SupervisedDataset", 1000),
       StS("RandomSampler", "train_dataset"),
       StN("DataLoader", 1),
       StN("tqdm", 3),
       StN("deque", 100),
       StS("makedirs", "./output") >>

ScriptEpochs == 3

ScriptHead == << St("set_description") >>

\* Mutant: the complete code forgets optimizer.zero_grad().
ScriptBodyWithoutZeroGrad ==
    << St("pop_meta_info"), St("train"), St("forward"),
       St("backward"), St("step"), St("append_loss"), StN("update", 1),
       St("set_postfix") >>

ScriptBody ==
    << St("pop_meta_info"), St("train"), St("forward"), St("zero_grad"),
       St("backward"), St("step"), St("append_loss"), StN("update", 1),
       St("set_postfix") >>

ScriptTail ==
    << StS("save_model", "./output"), StS("save_tokenizer", "./output"),
       StS("save_processor", "./output") >>

Program(p) ==
    IF p = "cells"
    THEN [setup |-> CellsSetup, epochs |-> CellsEpochs, head |-> CellsHead,
          body |-> CellsBody, tail |-> CellsTail]
    ELSE [setup |-> ScriptSetup, epochs |-> ScriptEpochs, head |-> ScriptHead,
          body |-> ScriptBody, tail |-> ScriptTail]

P == Program(prog)

StmtsOf(phase) ==
    CASE phase = "setup" -> P.setup
      [] phase = "head" -> P.head
      [] phase = "body" -> P.body
      [] phase = "tail" -> P.tail
      [] OTHER -> << >>

\* Where control goes when the statements of a phase are exhausted.
After(phase) ==
    CASE phase = "setup" -> "epoch"
      [] phase = "head" -> "iter"
      [] phase = "body" -> "fetch"
      [] phase = "tail" -> "epoch"
      [] OTHER -> phase

\* The position at the start of a phase; a phase without statements is passed.
At(phase) ==
    IF phase \in {"setup", "head", "body", "tail"}
    THEN IF Len(StmtsOf(phase)) > 0 THEN [phase |-> phase, i |-> 1]
         ELSE [phase |-> After(phase), i |-> 0]
    ELSE [phase |-> phase, i |-> 0]

NextPc ==
    IF pc.i < Len(StmtsOf(pc.phase))
    THEN [phase |-> pc.phase, i |-> pc.i + 1]
    ELSE At(After(pc.phase))

Cur ==
    IF pc.i \in DOMAIN StmtsOf(pc.phase) THEN StmtsOf(pc.phase)[pc.i] ELSE NoStmt

(***************************************************************************)
(* The libraries the notebook calls.                                       *)
(***************************************************************************)
\* The keys of a collated batch.
BatchKeys == {"input_ids", "labels", "attention_mask", "pixel_values", "meta_info"}

\* SupervisedDataset(..., size=n): at most n samples of the split.
DatasetLen(raw, size) == Min(raw, size)

\* len(train_dataloader), drop_last = False.
LoaderLen(n, bs) == (n + bs - 1) \div bs

\* Mutant: RandomSampler(train_dataset, replacement=True).
SamplerWithReplacement(n) == [1..n -> 1..n]

\* RandomSampler(train_dataset): a fresh permutation of the indices per iter().
SamplerOrders(n) == {f \in [1..n -> 1..n] : \A a, b \in 1..n : f[a] = f[b] => a = b}

\* The indices of the next batch: up to bs consecutive entries of the order.
BatchOf(ord, p, bs) == {ord[j] : j \in (p + 1)..Min(p + bs, Len(ord))}

\* deque(maxlen=m).append(x)
DequeAppend(q, x, m) ==
    IF Len(q) < m THEN Append(q, x) ELSE Append(Tail(q), x)

NoBatch == [samples |-> {}, keys |-> {}]
NoLoss == [params |-> 0, samples |-> {}]
NoFailure == [phase |-> "", i |-> 0]
Components == {"model", "tokenizer", "processor"}

Event(st) ==
    [op |-> st.op, n |-> st.n, s |-> st.s, epoch |-> epoch, k |-> nbatch,
     samples |-> batch.samples, keys |-> batch.keys, params |-> params]

Log(st) == trace' = Append(trace, Event(st))

\* A statement that only runs: it is logged and control moves on.
Plain(op) ==
    /\ Cur.op = op
    /\ Log(Cur)
    /\ pc' = NextPc

LoadPretrainedModels ==
    /\ Plain("load_pretrained_models")
    /\ mode' = "eval"
    /\ UNCHANGED <<notTrain, failure, prog, rawLen, dsLen, loader, epoch, order, pos, nbatch, batch,
                   params, grads, loss, losses, bar, disk, draws, trace1>>

ToDevice ==
    /\ Plain("to_device")
    /\ UNCHANGED <<notTrain, failure, prog, rawLen, dsLen, loader, epoch, order, pos, nbatch, batch,
                   mode, params, grads, loss, losses, bar, disk, draws, trace1>>

MakeOptimizer ==
    /\ Plain("AdamW")
    /\ grads' = "none"
    /\ UNCHANGED <<notTrain, failure, prog, rawLen, dsLen, loader, epoch, order, pos, nbatch, batch,
                   mode, params, loss, losses, bar, disk, draws, trace1>>

MakeTemplate ==
    /\ Plain("ChatTemplate")
    /\ UNCHANGED <<notTrain, failure, prog, rawLen, dsLen, loader, epoch, order, pos, nbatch, batch,
                   mode, params, grads, loss, losses, bar, disk, draws, trace1>>

MakeDataset ==
    /\ Plain("SupervisedDataset")
    /\ dsLen' = DatasetLen(rawLen, Cur.n)
    /\ UNCHANGED <<notTrain, failure, prog, rawLen, loader, epoch, order, pos, nbatch, batch,
                   mode, params, grads, loss, losses, bar, disk, draws, trace1>>

\* sampler=RandomSampler(train_dataset), evaluated as an argument of DataLoader.
MakeSampler ==
    /\ Plain("RandomSampler")
    /\ UNCHANGED <<notTrain, failure, prog, rawLen, dsLen, loader, epoch, order, pos, nbatch, batch,
                   mode, params, grads, loss, losses, bar, disk, draws, trace1>>

MakeDataLoader ==
    /\ Plain("DataLoader")
    /\ loader' = [batch_size |-> Cur.n, len |-> LoaderLen(dsLen, Cur.n)]
    /\ UNCHANGED <<notTrain, failure, prog, rawLen, dsLen, epoch, order, pos, nbatch, batch,
                   mode, params, grads, loss, losses, bar, disk, draws, trace1>>

MakeProgressBar ==
    /\ Plain("tqdm")
    /\ bar' = [total |-> Cur.n * loader.len, n |-> 0]
    /\ UNCHANGED <<notTrain, failure, prog, rawLen, dsLen, loader, epoch, order, pos, nbatch, batch,
                   mode, params, grads, loss, losses, disk, draws, trace1>>

MakeLosses ==
    /\ Plain("deque")
    /\ losses' = [maxlen |-> Cur.n, items |-> << >>]
    /\ UNCHANGED <<notTrain, failure, prog, rawLen, dsLen, loader, epoch, order, pos, nbatch, batch,
                   mode, params, grads, loss, bar, disk, draws, trace1>>

MakeDirs ==
    /\ Plain("makedirs")
    /\ UNCHANGED <<notTrain, failure, prog, rawLen, dsLen, loader, epoch, order, pos, nbatch, batch,
                   mode, params, grads, loss, losses, bar, disk, draws, trace1>>

\* for epoch in range(N): the next epoch starts.
ForEpoch ==
    /\ pc.phase = "epoch"
    /\ epoch < P.epochs
    /\ epoch' = epoch + 1
    /\ nbatch' = 0
    /\ pc' = At("head")
    /\ UNCHANGED <<notTrain, failure, prog, rawLen, dsLen, loader, order, pos, batch, mode, params, grads,
                   loss, losses, bar, disk, trace, draws, trace1>>

\* range(N) is exhausted: the program ends.
EndTraining ==
    /\ pc.phase = "epoch"
    /\ epoch >= P.epochs
    /\ pc' = At("done")
    /\ UNCHANGED <<notTrain, failure, prog, rawLen, dsLen, loader, epoch, order, pos, nbatch, batch,
                   mode, params, grads, loss, losses, bar, disk, trace, draws, trace1>>

SetDescription ==
    /\ Plain("set_description")
    /\ UNCHANGED <<notTrain, failure, prog, rawLen, dsLen, loader, epoch, order, pos, nbatch, batch,
                   mode, params, grads, loss, losses, bar, disk, draws, trace1>>

\* iter(train_dataloader): the sampler draws the epoch's order.  The script
\* run is given the draws of the cells run.
IterLoader ==
    /\ pc.phase = "iter"
    /\ \E o \in SamplerOrders(dsLen) :
          /\ prog = "script" => (epoch \in DOMAIN draws /\ o = draws[epoch])
          /\ order' = o
          /\ draws' = IF prog = "cells" THEN Append(draws, o) ELSE draws
    /\ pos' = 0
    /\ pc' = At("fetch")
    /\ UNCHANGED <<notTrain, failure, prog, rawLen, dsLen, loader, epoch, nbatch, batch, mode, params,
                   grads, loss, losses, bar, disk, trace, trace1>>

\* next(iterator) yields a collated batch.
NextBatch ==
    /\ pc.phase = "fetch"
    /\ pos < Len(order)
    /\ batch' = [samples |-> BatchOf(order, pos, loader.batch_size), keys |-> BatchKeys]
    /\ pos' = Min(pos + loader.batch_size, Len(order))
    /\ nbatch' = nbatch + 1
    /\ pc' = At("body")
    /\ trace' = Append(trace, [Event(St("next_batch")) EXCEPT
                                  !.k = nbatch + 1,
                                  !.samples = BatchOf(order, pos, loader.batch_size),
                                  !.keys = BatchKeys])
    /\ UNCHANGED <<notTrain, failure, prog, rawLen, dsLen, loader, epoch, order, mode, params, grads,
                   loss, losses, bar, disk, draws, trace1>>

\* next(iterator) raises StopIteration: the inner loop ends; `batch` stays bound
\* to the last batch.
StopIteration ==
    /\ pc.phase = "fetch"
    /\ pos >= Len(order)
    /\ nbatch' = 0
    /\ pc' = At("tail")
    /\ UNCHANGED <<notTrain, failure, prog, rawLen, dsLen, loader, epoch, order, pos, batch, mode, params,
                   grads, loss, losses, bar, disk, trace, draws, trace1>>

\* batch.pop('meta_info'): KeyError when the key is absent.
PopMetaInfo ==
    /\ Cur.op = "pop_meta_info"
    /\ IF "meta_info" \in batch.keys
       THEN /\ batch' = [batch EXCEPT !.keys = @ \ {"meta_info"}]
            /\ Log(Cur)
            /\ pc' = NextPc
            /\ UNCHANGED failure
       ELSE /\ pc' = At("raised")
            /\ failure' = pc
            /\ UNCHANGED <<batch, trace>>
    /\ UNCHANGED <<notTrain, prog, rawLen, dsLen, loader, epoch, order, pos, nbatch,
                   mode, params, grads, loss, losses, bar, disk, draws, trace1>>

TrainMode ==
    /\ Plain("train")
    /\ mode' = "train"
    /\ UNCHANGED <<notTrain, failure, prog, rawLen, dsLen, loader, epoch, order, pos, nbatch, batch,
                   params, grads, loss, losses, bar, disk, draws, trace1>>

\* loss = model(**batch)['loss']
Forward ==
    /\ Plain("forward")
    /\ loss' = [params |-> params, samples |-> batch.samples]
    /\ UNCHANGED <<notTrain, failure, prog, rawLen, dsLen, loader, epoch, order, pos, nbatch, batch,
                   mode, params, grads, losses, bar, disk, draws, trace1>>

ZeroGrad ==
    /\ Plain("zero_grad")
    /\ grads' = "zero"
    /\ UNCHANGED <<notTrain, failure, prog, rawLen, dsLen, loader, epoch, order, pos, nbatch, batch,
                   mode, params, loss, losses, bar, disk, draws, trace1>>

Backward ==
    /\ Plain("backward")
    /\ grads' = "fresh"
    /\ UNCHANGED <<notTrain, failure, prog, rawLen, dsLen, loader, epoch, order, pos, nbatch, batch,
                   mode, params, loss, losses, bar, disk, draws, trace1>>

OptimizerStep ==
    /\ Plain("step")
    /\ params' = params + 1
    /\ UNCHANGED <<notTrain, failure, prog, rawLen, dsLen, loader, epoch, order, pos, nbatch, batch,
                   mode, grads, loss, losses, bar, disk, draws, trace1>>

AppendLoss ==
    /\ Plain("append_loss")
    /\ losses' = [losses EXCEPT !.items = DequeAppend(@, loss, losses.maxlen)]
    /\ UNCHANGED <<notTrain, failure, prog, rawLen, dsLen, loader, epoch, order, pos, nbatch, batch,
                   mode, params, grads, loss, bar, disk, draws, trace1>>

BarUpdate ==
    /\ Plain("update")
    /\ bar' = [bar EXCEPT !.n = @ + Cur.n]
    /\ UNCHANGED <<notTrain, failure, prog, rawLen, dsLen, loader, epoch, order, pos, nbatch, batch,
                   mode, params, grads, loss, losses, disk, draws, trace1>>

SetPostfix ==
    /\ Plain("set_postfix")
    /\ UNCHANGED <<notTrain, failure, prog, rawLen, dsLen, loader, epoch, order, pos, nbatch, batch,
                   mode, params, grads, loss, losses, bar, disk, draws, trace1>>

Save(op, c) ==
    /\ Plain(op)
    /\ disk' = [disk EXCEPT ![c] = epoch]
    /\ UNCHANGED <<notTrain, failure, prog, rawLen, dsLen, loader, epoch, order, pos, nbatch, batch,
                   mode, params, grads, loss, losses, bar, draws, trace1>>

SaveModel == Save("save_model", "model")

SaveTokenizer == Save("save_tokenizer", "tokenizer")

SaveProcessor == Save("save_processor", "processor")

\* Mutant: a try/except around the loop body that skips the failing batch.
RaiseAndSkipBatch ==
    /\ pc.phase \in {"setup", "head", "iter", "fetch", "body", "tail"}
    /\ pc' = IF pc.phase = "body" THEN At("fetch") ELSE At("raised")
    /\ failure' = pc
    /\ UNCHANGED <<notTrain, prog, rawLen, dsLen, loader, epoch, order, pos, nbatch, batch,
                   mode, params, grads, loss, losses, bar, disk, trace, draws, trace1>>

\* The statement about to run, or the fetch of the next batch, raises: nothing
\* catches it, so the program ends there.
Raise ==
    /\ pc.phase \in {"setup", "head", "iter", "fetch", "body", "tail"}
    /\ pc' = At("raised")
    /\ failure' = pc
    /\ UNCHANGED <<notTrain, prog, rawLen, dsLen, loader, epoch, order, pos, nbatch, batch,
                   mode, params, grads, loss, losses, bar, disk, trace, draws, trace1>>

(***************************************************************************)
(* The AA_TI2T chat template (shown in the SFT notebook).                  *)
(***************************************************************************)
NumSamples == 2
MaxCalls == 3

Prompts == {"", "What is in the picture?"}
Responses == {"A cat.", "A dog."}
ImageModes == {"RGB", "RGBA"}
Images == [mode : ImageModes, pixels : {"px"}]

\* The raw records of the dataset: the three fields the template reads, records
\* that carry a further field, and records without an image.
RawSampleSet ==
    [prompt : Prompts, response : Responses, image : Images]
    \cup [prompt : Prompts, response : {"A cat."}, image : [mode : {"RGB"}, pixels : {"px"}],
          question_id : {"q7"}]
    \cup [prompt : Prompts, response : {"A dog."}]

\* PIL's Image.convert(mode): a converted copy; the receiver is left as it is.
Convert(image, m) == [image EXCEPT !.mode = m]

HasFields(raw) == {"prompt", "response", "image"} \subseteq DOMAIN raw

\* Mutant: the text block is left out when the prompt is empty.
FormatDroppingEmptyPrompt(self, raw) ==
    IF ~HasFields(raw)
    THEN [ok |-> FALSE, conv |-> << >>, meta |-> << >>, raw |-> raw, self |-> self]
    ELSE [ok |-> TRUE,
          conv |-> << [role |-> "user",
                       content |-> IF raw.prompt = ""
                                   THEN << [type |-> "image"] >>
                                   ELSE << [type |-> "image"],
                                           [type |-> "text", text |-> raw.prompt] >>],
                      [role |-> "assistant",
                       content |-> << [type |-> "text", text |-> raw.response] >>] >>,
          meta |-> [image |-> Convert(raw.image, "RGBA")],
          raw |-> raw,
          self |-> self]

\* Mutant: the converted image is stored back into the raw sample.
FormatConvertingInPlace(self, raw) ==
    IF ~HasFields(raw)
    THEN [ok |-> FALSE, conv |-> << >>, meta |-> << >>, raw |-> raw, self |-> self]
    ELSE [ok |-> TRUE,
          conv |-> << [role |-> "user",
                       content |-> << [type |-> "image"],
                                      [type |-> "text", text |-> raw.prompt] >>],
                      [role |-> "assistant",
                       content |-> << [type |-> "text", text |-> raw.response] >>] >>,
          meta |-> [image |-> Convert(raw.image, "RGBA")],
          raw |-> [raw EXCEPT !.image = Convert(raw.image, "RGBA")],
          self |-> self]

\* AA_TI2T.format_supervised_sample(self, raw_sample).  The result names what
\* the call returns (ok, conv, meta) and what it leaves behind in its two
\* arguments (raw, self).  A missing field is a KeyError (ok = FALSE).
FormatSupervisedSample(self, raw) ==
    IF ~HasFields(raw)
    THEN [ok |-> FALSE, conv |-> << >>, meta |-> << >>, raw |-> raw, self |-> self]
    ELSE LET prompt == raw.prompt
             answer == raw.response
             image == Convert(raw.image, "RGBA")
         IN  [ok |-> TRUE,
              conv |-> << [role |-> "user",
                           content |-> << [type |-> "image"],
                                          [type |-> "text", text |-> prompt] >>],
                          [role |-> "assistant",
                           content |-> << [type |-> "text", text |-> answer] >>] >>,
              meta |-> [image |-> image],
              raw |-> raw,
              self |-> self]

\* One call of the template on the sample with index id.
Format(id) ==
    /\ Len(formatted) < MaxCalls
    /\ LET r == FormatSupervisedSample(formatter, rawSamples[id])
       IN  /\ formatted' = Append(formatted,
                  [id |-> id, arg |-> rawSamples[id], self |-> formatter, ok |-> r.ok,
                   conv |-> r.conv, meta |-> r.meta])
           /\ rawSamples' = [rawSamples EXCEPT ![id] = r.raw]
           /\ formatter' = r.self

FormatAny ==
    /\ \E id \in DOMAIN rawSamples : Format(id)
    /\ UNCHANGED notFmt

(***************************************************************************)
(* configs/train/text_video_to_action/sft.yaml, line by line.  A line is   *)
(* blank, a comment, or `key: value` at some indentation (value "" when    *)
(* nothing follows the colon).                                             *)
(***************************************************************************)
Blank == [kind |-> "blank", indent |-> 0, key |-> "", value |-> ""]
Cmt(ind) == [kind |-> "comment", indent |-> ind, key |-> "", value |-> ""]
Key(ind, k, v) == [kind |-> "key", indent |-> ind, key |-> k, value |-> v]

\* sft.yaml lines 1-17
YamlHeader ==
    << Cmt(0),
       Blank,
       Cmt(0),
       Cmt(0),
       Cmt(0),
       Cmt(0),
       Cmt(0),
       Cmt(0),
       Cmt(0),
       Cmt(0),
       Cmt(0),
       Cmt(0),
       Cmt(0),
       Cmt(0),
       Cmt(0),
       Cmt(0),
       Blank >>

\* sft.yaml lines 18-62
YamlTrainCfgs ==
    << Cmt(0),
       Key(0, "train_cfgs", ""),
       Cmt(2),
       Cmt(2),
       Key(2, "save_checkpoint", "False"),
       Cmt(2),
       Key(2, "load_checkpoint", "False"),
       Cmt(2),
       Key(2, "ds_cfgs", "ds_z3_config.json"),
       Cmt(2),
       Key(2, "seed", "3407"),
       Cmt(2),
       Key(2, "epochs", "200"),
       Cmt(2),
       Key(2, "per_device_train_batch_size", "8"),
       Cmt(2),
       Key(2, "per_device_val_batch_size", "12"),
       Cmt(2),
       Key(2, "gradient_accumulation_steps", "2"),
       Cmt(2),
       Key(2, "gradient_checkpointing", "False"),
       Cmt(2),
       Key(2, "learning_rate", "0.0001"),
       Cmt(2),
       Key(2, "lr_scheduler_type", "constant"),
       Cmt(2),
       Key(2, "lr_warmup_ratio", "0.0"),
       Cmt(2),
       Key(2, "weight_decay", "0.0"),
       Cmt(2),
       Key(2, "adam_betas", "[0.9, 0.95]"),
       Cmt(2),
       Key(2, "adam_epsilon", "1.e-8"),
       Cmt(2),
       Key(2, "loss", "'action'"),
       Cmt(2),
       Key(2, "val_strategy", "steps"),
       Cmt(2),
       Key(2, "val_interval", "500"),
       Cmt(2),
       Key(2, "max_grad_norm", "1.0"),
       Cmt(2),
       Key(2, "bf16", "True"),
       Cmt(2),
       Key(2, "fp16", "False") >>

\* sft.yaml lines 63-86
YamlDataCfgs ==
    << Cmt(0),
       Key(0, "data_cfgs", ""),
       Cmt(2),
       Key(2, "dataset_version", "'CHORES'"),
       Cmt(2),
       Key(2, "dataset_task_type", "['PickupType']"),
       Cmt(2),
       Key(2, "data_dir", "'path/to/data'"),
       Cmt(2),
       Key(2, "sliding_window", "100"),
       Cmt(2),
       Key(2, "init_prob_sample_last_steps", "0.0"),
       Cmt(2),
       Key(2, "final_prob_sample_last_steps", "0.0"),
       Cmt(2),
       Key(2, "reduce_action_redundancy", "False"),
       Cmt(2),
       Key(2, "max_samples", "10000000"),
       Cmt(2),
       Key(2, "val_max_samples", "640"),
       Cmt(2),
       Key(2, "val_datasets", "False"),
       Cmt(2),
       Key(2, "num_workers", "8") >>

\* Mutant: input_sensors dedented to the top level.
YamlSensorCfgsDedented ==
    << Key(0, "sensor_cfgs", ""),
       Cmt(2),
       Key(0, "input_sensors", "['raw_navigation_camera', 'raw_manipulation_camera']") >>

\* sft.yaml lines 87-89
YamlSensorCfgs ==
    << Key(0, "sensor_cfgs", ""),
       Cmt(2),
       Key(2, "input_sensors", "['raw_navigation_camera', 'raw_manipulation_camera']") >>

\* sft.yaml lines 90-107
YamlLoggerCfgs ==
    << Cmt(0),
       Key(0, "logger_cfgs", ""),
       Cmt(2),
       Key(2, "log_type", "'wandb'"),
       Cmt(2),
       Key(2, "log_project", "null"),
       Cmt(2),
       Key(2, "log_run_name", "null"),
       Cmt(2),
       Key(2, "output_dir", "null"),
       Cmt(2),
       Key(2, "cache_dir", "null"),
       Cmt(2),
       Key(2, "save_total_limit", "1"),
       Cmt(2),
       Key(2, "log_video_interval", "2000"),
       Cmt(2),
       Key(2, "log_video_interval_val", "100") >>

\* sft.yaml lines 108-115
YamlModelCfgs ==
    << Cmt(0),
       Key(0, "model_cfgs", ""),
       Cmt(2),
       Key(2, "model_architecture", "'EarlyFusionCnnTransformer'"),
       Cmt(2),
       Key(2, "model_name_or_path", "null"),
       Cmt(2),
       Key(2, "model_version", "'small_3'") >>

\* sft.yaml lines 116-133
YamlLoraCfgs ==
    << Cmt(0),
       Key(0, "lora_cfgs", ""),
       Cmt(2),
       Key(2, "use_lora", "False"),
       Cmt(2),
       Key(2, "task_type", "TaskType.CAUSAL_LM"),
       Cmt(2),
       Key(2, "inference_mode", "False"),
       Cmt(2),
       Key(2, "r", "16"),
       Cmt(2),
       Key(2, "lora_alpha", "16"),
       Cmt(2),
       Key(2, "lora_dropout", "0.1"),
       Cmt(2),
       Key(2, "target_modules", "['q_proj', 'v_proj']"),
       Cmt(2),
       Key(2, "save_full_model", "True") >>

\* sft.yaml lines 134-147
YamlBnbCfgs ==
    << Cmt(0),
       Key(0, "bnb_cfgs", ""),
       Cmt(2),
       Key(2, "use_bnb", "False"),
       Cmt(2),
       Key(2, "load_in_4bit", "True"),
       Cmt(2),
       Key(2, "load_in_8bit", "False"),
       Cmt(2),
       Key(2, "bnb_4bit_quant_type", "nf4"),
       Cmt(2),
       Key(2, "bnb_4bit_use_double_quant", "True"),
       Cmt(2),
       Key(2, "bnb_4bit_compute_dtype", "float16") >>

\* sft.yaml lines 148-149
YamlSpecialTokens ==
    << Cmt(0),
       Key(0, "special_tokens", "null") >>

SftYaml ==
    YamlHeader \o YamlTrainCfgs \o YamlDataCfgs \o YamlSensorCfgs \o YamlLoggerCfgs
    \o YamlModelCfgs \o YamlLoraCfgs \o YamlBnbCfgs \o YamlSpecialTokens

\* The key lines after line i.
KeyLinesAfter(i) == {j \in (i + 1)..Len(SftYaml) : SftYaml[j].kind = "key"}

\* A key with nothing after the colon opens a mapping when the next key line is
\* indented deeper; otherwise its value is null.
OpensMapping(i) ==
    /\ SftYaml[i].kind = "key"
    /\ SftYaml[i].value = ""
    /\ KeyLinesAfter(i) # {}
    /\ LET j == CHOOSE m \in KeyLinesAfter(i) : \A o \in KeyLinesAfter(i) : m <= o
       IN  SftYaml[j].indent > SftYaml[i].indent

YamlMore == yline \in DOMAIN SftYaml

\* A blank line or a comment.
SkipLine ==
    /\ YamlMore
    /\ SftYaml[yline].kind \in {"blank", "comment"}
    /\ yline' = yline + 1
    /\ UNCHANGED <<notYaml, ysection, ycfg>>

\* `name:` at the top level, followed by an indented block.
OpenSection ==
    /\ YamlMore
    /\ SftYaml[yline].kind = "key"
    /\ SftYaml[yline].indent = 0
    /\ OpensMapping(yline)
    /\ ysection' = SftYaml[yline].key
    /\ yline' = yline + 1
    /\ UNCHANGED <<notYaml, ycfg>>

\* `key: value` inside the open section.
ReadNested ==
    /\ YamlMore
    /\ SftYaml[yline].kind = "key"
    /\ SftYaml[yline].indent > 0
    /\ ycfg' = ycfg \cup {[section |-> ysection, key |-> SftYaml[yline].key,
                           value |-> SftYaml[yline].value]}
    /\ yline' = yline + 1
    /\ UNCHANGED <<notYaml, ysection>>

\* `key: value` at the top level: a setting outside every section; it closes
\* the open section.
ReadTopLevel ==
    /\ YamlMore
    /\ SftYaml[yline].kind = "key"
    /\ SftYaml[yline].indent = 0
    /\ ~OpensMapping(yline)
    /\ ycfg' = ycfg \cup {[section |-> "", key |-> SftYaml[yline].key,
                           value |-> SftYaml[yline].value]}
    /\ ysection' = ""
    /\ yline' = yline + 1
    /\ UNCHANGED notYaml

(***************************************************************************)
(* cookbooks/zh/text_to_text_dpo.ipynb: the five code cells, run in order. *)
(***************************************************************************)
MaxPrompt == 2
MaxNew == 2

\* Cell 3.1
DpoImports ==
    << StS("import", "transformers"), StS("import", "os"), StS("import", "torch"),
       StS("environ", "TRANSFORMERS_OFFLINE"), StS("environ", "HF_DATASETS_OFFLINE") >>

\* Cell 3.2
DpoLoadOriginal ==
    << StS("set_device", "cuda"),
       StS("set_model_path", "/PATH/TO/YOUR/Llama-3.1-8B-Instruct"),
       St("load_model"), St("load_tokenizer"), St("eval") >>

\* Cell 3.3
DpoGenerateOriginal ==
    << St("messages"), St("apply_chat_template"), St("tokenize"), St("no_grad_enter"),
       StN("generate", 2048), St("no_grad_exit"), St("decode"), St("print") >>

\* Mutant: the cell that loads the trained model leaves out model.eval().
DpoLoadTrainedWithoutEval ==
    << StS("set_model_path", "/PATH/TO/YOUR/TRAINED_MODEL"),
       St("load_model"), St("load_tokenizer") >>

\* Cell 5.1
DpoLoadTrained ==
    << StS("set_model_path", "/PATH/TO/YOUR/TRAINED_MODEL"),
       St("load_model"), St("load_tokenizer"), St("eval") >>

\* Cell 5.2
DpoGenerateTrained ==
    << St("messages"), St("apply_chat_template"), St("tokenize"), St("no_grad_enter"),
       StN("generate", 2048), St("no_grad_exit"), St("decode"), St("print") >>

DpoCells ==
    << DpoImports, DpoLoadOriginal, DpoGenerateOriginal, DpoLoadTrained,
       DpoGenerateTrained >>

\* Token ids; the ids in SpecialTokens are the tokenizer's special tokens.
Vocab == {0, 1}
SpecialTokens == {0}

SeqsUpTo(S, lo, hi) == UNION {[1..n -> S] : n \in lo..hi}

\* tokenizer.decode(ids, skip_special_tokens=True): the pieces of the ids that
\* are not special, in order.
Piece(t) == IF t = 1 THEN "a" ELSE "?"

RECURSIVE Decode(_)
Decode(ids) ==
    IF ids = << >> THEN << >>
    ELSE IF Head(ids) \in SpecialTokens THEN Decode(Tail(ids))
    ELSE << Piece(Head(ids)) >> \o Decode(Tail(ids))

\* Mutant: the whole output is decoded, prompt included.
GeneratedPartWithPrompt(out, inp) == out

\* output[0][len(inputs['input_ids'][0]):]
GeneratedPart(out, inp) == SubSeq(out, Len(inp) + 1, Len(out))

NoModel == [id |-> 0, path |-> "", mode |-> "unloaded", evalCalled |-> FALSE, params |-> 0]

DCur ==
    IF dpc.status = "run" /\ dpc.cell \in DOMAIN DpoCells
                          /\ dpc.i \in DOMAIN DpoCells[dpc.cell]
    THEN DpoCells[dpc.cell][dpc.i] ELSE NoStmt

DNextPc ==
    IF dpc.i < Len(DpoCells[dpc.cell]) THEN [dpc EXCEPT !.i = @ + 1]
    ELSE IF dpc.cell < Len(DpoCells) THEN [cell |-> dpc.cell + 1, i |-> 1, status |-> "run"]
    ELSE [dpc EXCEPT !.status = "done"]

DEvent(st) ==
    [op |-> st.op, n |-> st.n, s |-> st.s, cell |-> dpc.cell, model |-> dmodel.id,
     path |-> dmodel.path, mode |-> dmodel.mode, evalCalled |-> dmodel.evalCalled,
     params |-> dmodel.params, nograd |-> nograd]

DPlain(op) ==
    /\ DCur.op = op
    /\ dtrace' = Append(dtrace, DEvent(DCur))
    /\ dpc' = DNextPc

DImport ==
    /\ DPlain("import")
    /\ UNCHANGED <<notDpo, denv, dmodel, dtok, nograd, dinputs, doutput, dtext, dprinted>>

DEnviron ==
    /\ DPlain("environ")
    /\ UNCHANGED <<notDpo, denv, dmodel, dtok, nograd, dinputs, doutput, dtext, dprinted>>

DSetDevice ==
    /\ DPlain("set_device")
    /\ denv' = [denv EXCEPT !.device = DCur.s]
    /\ UNCHANGED <<notDpo, dmodel, dtok, nograd, dinputs, doutput, dtext, dprinted>>

DSetModelPath ==
    /\ DPlain("set_model_path")
    /\ denv' = [denv EXCEPT !.model_path = DCur.s]
    /\ UNCHANGED <<notDpo, dmodel, dtok, nograd, dinputs, doutput, dtext, dprinted>>

\* model = AutoModelForCausalLM.from_pretrained(model_path, ...).to(device):
\* `model` is bound to a new object, which from_pretrained hands out in
\* evaluation mode.
DLoadModel ==
    /\ DPlain("load_model")
    /\ dmodel' = [id |-> dmodel.id + 1, path |-> denv.model_path, mode |-> "eval",
                  evalCalled |-> FALSE, params |-> 0]
    /\ UNCHANGED <<notDpo, denv, dtok, nograd, dinputs, doutput, dtext, dprinted>>

DLoadTokenizer ==
    /\ DPlain("load_tokenizer")
    /\ dtok' = denv.model_path
    /\ UNCHANGED <<notDpo, denv, dmodel, nograd, dinputs, doutput, dtext, dprinted>>

\* model.eval()
DEval ==
    /\ DPlain("eval")
    /\ dmodel' = [dmodel EXCEPT !.mode = "eval", !.evalCalled = TRUE]
    /\ UNCHANGED <<notDpo, denv, dtok, nograd, dinputs, doutput, dtext, dprinted>>

DMessages ==
    /\ DPlain("messages")
    /\ denv' = [denv EXCEPT !.messages = TRUE]
    /\ UNCHANGED <<notDpo, dmodel, dtok, nograd, dinputs, doutput, dtext, dprinted>>

DApplyChatTemplate ==
    /\ DPlain("apply_chat_template")
    /\ denv' = [denv EXCEPT !.input_text = denv.messages]
    /\ UNCHANGED <<notDpo, dmodel, dtok, nograd, dinputs, doutput, dtext, dprinted>>

\* inputs = tokenizer([input_text], return_tensors="pt").to(device)
DTokenize ==
    /\ DPlain("tokenize")
    /\ dinputs' \in SeqsUpTo(Vocab, 1, MaxPrompt)
    /\ UNCHANGED <<notDpo, denv, dmodel, dtok, nograd, doutput, dtext, dprinted>>

DNoGradEnter ==
    /\ DPlain("no_grad_enter")
    /\ nograd' = TRUE
    /\ UNCHANGED <<notDpo, denv, dmodel, dtok, dinputs, doutput, dtext, dprinted>>

\* output = model.generate(**inputs, max_new_tokens=n): the prompt followed by
\* at most n new tokens.
DGenerate ==
    /\ DPlain("generate")
    /\ \E new \in SeqsUpTo(Vocab, 0, Min(DCur.n, MaxNew)) : doutput' = dinputs \o new
    /\ UNCHANGED <<notDpo, denv, dmodel, dtok, nograd, dinputs, dtext, dprinted>>

DNoGradExit ==
    /\ DPlain("no_grad_exit")
    /\ nograd' = FALSE
    /\ UNCHANGED <<notDpo, denv, dmodel, dtok, dinputs, doutput, dtext, dprinted>>

DDecode ==
    /\ DPlain("decode")
    /\ dtext' = Decode(GeneratedPart(doutput, dinputs))
    /\ UNCHANGED <<notDpo, denv, dmodel, dtok, nograd, dinputs, doutput, dprinted>>

DPrint ==
    /\ DPlain("print")
    /\ dprinted' = Append(dprinted, dtext)
    /\ UNCHANGED <<notDpo, denv, dmodel, dtok, nograd, dinputs, doutput, dtext>>

\* The statement about to run raises: the cell stops and so does the run.  An
\* exception inside the with block leaves the no-gradient context.
DRaise ==
    /\ dpc.status = "run"
    /\ dpc' = [dpc EXCEPT !.status = "raised"]
    /\ nograd' = FALSE
    /\ UNCHANGED <<notDpo, denv, dmodel, dtok, dinputs, doutput, dtext, dprinted, dtrace>>

(***************************************************************************)
(* Specifications.                                                         *)
(***************************************************************************)
NextTrain ==
    \/ LoadPretrainedModels
    \/ ToDevice
    \/ MakeOptimizer
    \/ MakeTemplate
    \/ MakeDataset
    \/ MakeSampler
    \/ MakeDataLoader
    \/ MakeProgressBar
    \/ MakeLosses
    \/ MakeDirs
    \/ ForEpoch
    \/ EndTraining
    \/ SetDescription
    \/ IterLoader
    \/ NextBatch
    \/ StopIteration
    \/ PopMetaInfo
    \/ TrainMode
    \/ Forward
    \/ ZeroGrad
    \/ Backward
    \/ OptimizerStep
    \/ AppendLoss
    \/ BarUpdate
    \/ SetPostfix
    \/ SaveModel
    \/ SaveTokenizer
    \/ SaveProcessor
    \/ Raise

\* The cells run has ended normally: the complete-code cell is run from a fresh
\* kernel on the same data with the same sampler draws.
StartScript ==
    /\ prog = "cells"
    /\ pc.phase = "done"
    /\ prog' = "script"
    /\ trace1' = trace
    /\ pc' = At("setup")
    /\ dsLen' = 0
    /\ loader' = [batch_size |-> 0, len |-> -1]
    /\ epoch' = 0
    /\ order' = << >>
    /\ pos' = 0
    /\ nbatch' = 0
    /\ batch' = NoBatch
    /\ mode' = "unloaded"
    /\ params' = 0
    /\ grads' = "none"
    /\ loss' = NoLoss
    /\ losses' = [maxlen |-> 0, items |-> << >>]
    /\ bar' = [total |-> 0, n |-> 0]
    /\ disk' = [c \in Components |-> 0]
    /\ trace' = << >>
    /\ UNCHANGED <<notTrain, rawLen, draws, failure>>

NextEquiv == NextTrain \/ StartScript

NextFmt == FormatAny

NextYaml ==
    \/ SkipLine
    \/ OpenSection
    \/ ReadNested
    \/ ReadTopLevel

NextDpo ==
    \/ DImport
    \/ DEnviron
    \/ DSetDevice
    \/ DSetModelPath
    \/ DLoadModel
    \/ DLoadTokenizer
    \/ DEval
    \/ DMessages
    \/ DApplyChatTemplate
    \/ DTokenize
    \/ DNoGradEnter
    \/ DGenerate
    \/ DNoGradExit
    \/ DDecode
    \/ DPrint
    \/ DRaise

\* The SFT notebook is about to run; the other parts are idle.
InitTrain ==
    /\ prog = "cells"
    /\ pc = At("setup")
    /\ rawLen \in 0..MaxRaw
    /\ dsLen = 0
    /\ loader = [batch_size |-> 0, len |-> -1]
    /\ epoch = 0
    /\ order = << >>
    /\ pos = 0
    /\ nbatch = 0
    /\ batch = NoBatch
    /\ mode = "unloaded"
    /\ params = 0
    /\ grads = "none"
    /\ loss = NoLoss
    /\ losses = [maxlen |-> 0, items |-> << >>]
    /\ bar = [total |-> 0, n |-> 0]
    /\ disk = [c \in Components |-> 0]
    /\ trace = << >>
    /\ draws = << >>
    /\ trace1 = << >>
    /\ failure = NoFailure
    /\ rawSamples = << >>
    /\ formatter = [system_prompt |-> ""]
    /\ formatted = << >>
    /\ yline = 0
    /\ ysection = ""
    /\ ycfg = {}
    /\ dpc = [cell |-> 0, i |-> 0, status |-> "off"]
    /\ denv = [device |-> "", model_path |-> "", messages |-> FALSE, input_text |-> FALSE]
    /\ dmodel = NoModel
    /\ dtok = ""
    /\ nograd = FALSE
    /\ dinputs = << >>
    /\ doutput = << >>
    /\ dtext = << >>
    /\ dprinted = << >>
    /\ dtrace = << >>

\* A dataset of raw records and a fresh AA_TI2T instance.
InitFmt ==
    /\ prog = "cells"
    /\ pc = At("off")
    /\ rawLen = 0
    /\ dsLen = 0
    /\ loader = [batch_size |-> 0, len |-> -1]
    /\ epoch = 0
    /\ order = << >>
    /\ pos = 0
    /\ nbatch = 0
    /\ batch = NoBatch
    /\ mode = "unloaded"
    /\ params = 0
    /\ grads = "none"
    /\ loss = NoLoss
    /\ losses = [maxlen |-> 0, items |-> << >>]
    /\ bar = [total |-> 0, n |-> 0]
    /\ disk = [c \in Components |-> 0]
    /\ trace = << >>
    /\ draws = << >>
    /\ trace1 = << >>
    /\ failure = NoFailure
    /\ rawSamples \in [1..NumSamples -> RawSampleSet]
    /\ formatter = [system_prompt |-> ""]
    /\ formatted = << >>
    /\ yline = 0
    /\ ysection = ""
    /\ ycfg = {}
    /\ dpc = [cell |-> 0, i |-> 0, status |-> "off"]
    /\ denv = [device |-> "", model_path |-> "", messages |-> FALSE, input_text |-> FALSE]
    /\ dmodel = NoModel
    /\ dtok = ""
    /\ nograd = FALSE
    /\ dinputs = << >>
    /\ doutput = << >>
    /\ dtext = << >>
    /\ dprinted = << >>
    /\ dtrace = << >>

\* sft.yaml is about to be read.
InitYaml ==
    /\ prog = "cells"
    /\ pc = At("off")
    /\ rawLen = 0
    /\ dsLen = 0
    /\ loader = [batch_size |-> 0, len |-> -1]
    /\ epoch = 0
    /\ order = << >>
    /\ pos = 0
    /\ nbatch = 0
    /\ batch = NoBatch
    /\ mode = "unloaded"
    /\ params = 0
    /\ grads = "none"
    /\ loss = NoLoss
    /\ losses = [maxlen |-> 0, items |-> << >>]
    /\ bar = [total |-> 0, n |-> 0]
    /\ disk = [c \in Components |-> 0]
    /\ trace = << >>
    /\ draws = << >>
    /\ trace1 = << >>
    /\ failure = NoFailure
    /\ rawSamples = << >>
    /\ formatter = [system_prompt |-> ""]
    /\ formatted = << >>
    /\ yline = 1
    /\ ysection = ""
    /\ ycfg = {}
    /\ dpc = [cell |-> 0, i |-> 0, status |-> "off"]
    /\ denv = [device |-> "", model_path |-> "", messages |-> FALSE, input_text |-> FALSE]
    /\ dmodel = NoModel
    /\ dtok = ""
    /\ nograd = FALSE
    /\ dinputs = << >>
    /\ doutput = << >>
    /\ dtext = << >>
    /\ dprinted = << >>
    /\ dtrace = << >>

\* The DPO notebook is about to run from a fresh kernel.
InitDpo ==
    /\ prog = "cells"
    /\ pc = At("off")
    /\ rawLen = 0
    /\ dsLen = 0
    /\ loader = [batch_size |-> 0, len |-> -1]
    /\ epoch = 0
    /\ order = << >>
    /\ pos = 0
    /\ nbatch = 0
    /\ batch = NoBatch
    /\ mode = "unloaded"
    /\ params = 0
    /\ grads = "none"
    /\ loss = NoLoss
    /\ losses = [maxlen |-> 0, items |-> << >>]
    /\ bar = [total |-> 0, n |-> 0]
    /\ disk = [c \in Components |-> 0]
    /\ trace = << >>
    /\ draws = << >>
    /\ trace1 = << >>
    /\ failure = NoFailure
    /\ rawSamples = << >>
    /\ formatter = [system_prompt |-> ""]
    /\ formatted = << >>
    /\ yline = 0
    /\ ysection = ""
    /\ ycfg = {}
    /\ dpc = [cell |-> 1, i |-> 1, status |-> "run"]
    /\ denv = [device |-> "", model_path |-> "", messages |-> FALSE, input_text |-> FALSE]
    /\ dmodel = NoModel
    /\ dtok = ""
    /\ nograd = FALSE
    /\ dinputs = << >>
    /\ doutput = << >>
    /\ dtext = << >>
    /\ dprinted = << >>
    /\ dtrace = << >>

\* The SFT notebook, cells 3-14.
SpecTrain == InitTrain /\ [][NextTrain]_vars

\* The SFT notebook, cells 3-14 and then cell 16.
SpecEquiv == InitTrain /\ [][NextEquiv]_vars

\* The chat template applied to the records of a dataset.
SpecFmt == InitFmt /\ [][NextFmt]_vars

\* The reading of sft.yaml.
SpecYaml == InitYaml /\ [][NextYaml]_vars

\* The DPO notebook.
SpecDpo == InitDpo /\ [][NextDpo]_vars

(***************************************************************************)
(* Properties of the training loop (cell 14).                              *)
(***************************************************************************)
SaveOps == {"save_model", "save_tokenizer", "save_processor"}

\* The seven steps of one iteration, in the order the loop body states them.
IterationSteps ==
    << "pop_meta_info", "train", "forward", "zero_grad", "backward", "step",
       "append_loss" >>

\* Positions of the log where op ran / ran in epoch e.
Ran(op) == {i \in DOMAIN trace : trace[i].op = op}
RanIn(op, e) == {i \in Ran(op) : trace[i].epoch = e}

\* C1: a run of the training loop that does not fail performs exactly 3 * L
\* optimizer steps, L = len(train_dataloader) >= 0, and exactly 3 checkpoint
\* saves, one per epoch.
C1_ThreeEpochsOfStepsAndSaves ==
    pc.phase = "done" =>
        /\ epoch = 3
        /\ Cardinality(Ran("step")) = 3 * loader.len
        /\ params = 3 * loader.len
        /\ \A op \in SaveOps :
              /\ Cardinality(Ran(op)) = 3
              /\ \A e \in 1..3 : Cardinality(RanIn(op, e)) = 1

C1_Witness ==
    /\ pc.phase = "done"
    /\ loader.len = 2
    /\ Cardinality(Ran("step")) = 6

\* C2: the save of epoch e happens only after every batch of epoch e had its
\* optimizer step and before anything of epoch e+1 runs, model first, then
\* tokenizer, then processor; no save happens in the middle of an epoch.
C2_SaveAfterEachEpoch ==
    \A i \in DOMAIN trace :
        trace[i].op \in SaveOps =>
            LET e == trace[i].epoch
            IN  /\ Cardinality({j \in RanIn("step", e) : j < i}) = loader.len
                /\ \A j \in DOMAIN trace :
                      /\ (trace[j].epoch = e /\ trace[j].op \notin SaveOps) => j < i
                      /\ trace[j].epoch > e => j > i
                      /\ trace[j].epoch < e => j < i
                /\ trace[i].op = "save_tokenizer" =>
                      i > 1 /\ trace[i - 1].op = "save_model" /\ trace[i - 1].epoch = e
                /\ trace[i].op = "save_processor" =>
                      i > 1 /\ trace[i - 1].op = "save_tokenizer" /\ trace[i - 1].epoch = e
                /\ trace[i].k = 0

C2_Witness ==
    /\ loader.len = 2
    /\ RanIn("save_processor", 2) # {}
    /\ RanIn("step", 3) # {}

\* The components whose save statement stands before statement i of the tail.
SavedBefore(i) ==
    {c \in Components : \E j \in 1..(i - 1) :
        j \in DOMAIN P.tail /\ P.tail[j].op = "save_" \o c}

\* What ./output holds after a failure: the saves of the failing epoch that
\* were completed before the failing statement, and the previous epoch's saves
\* for the rest.
DiskAfterFailure ==
    \A c \in Components :
        disk[c] = IF failure.phase = "tail" /\ c \in SavedBefore(failure.i)
                  THEN epoch
                  ELSE IF epoch = 0 THEN 0 ELSE epoch - 1

\* C5 (as stated): a failure in epoch e leaves on disk only what the saves of
\* the epochs before e wrote.
C5_OnlyEarlierEpochsOnDisk ==
    failure # NoFailure => \A c \in Components : disk[c] = 0 \/ disk[c] < epoch

\* C5 (amended): nothing catches a failure: the loop stops where the failure
\* happened, with no retry, no skipped batch, no further optimizer step and no
\* further save.  A failure while the batches of epoch e are processed leaves
\* on disk only what the saves of the epochs before e wrote; a failure in one
\* of the saves of epoch e leaves in addition the components that epoch e saved
\* before the failing save.
C5_FailureStopsTheLoop ==
    /\ [](failure # NoFailure => pc.phase = "raised" /\ DiskAfterFailure)
    /\ [][failure # NoFailure => UNCHANGED trainVars]_vars

C5_Witness ==
    /\ failure.phase = "tail"
    /\ failure.i = 2
    /\ epoch = 2
    /\ disk = [model |-> 2, tokenizer |-> 1, processor |-> 1]

StepIndex(op) == CHOOSE n \in DOMAIN IterationSteps : IterationSteps[n] = op
IsStep(i) == trace[i].op \in Range(IterationSteps)
BatchId(i) == <<trace[i].epoch, trace[i].k>>

\* C6: the loop runs one batch at a time: the steps of an iteration occur in
\* the order pop 'meta_info', train mode, forward, zero_grad, backward,
\* optimizer step, record loss, on the batch fetched for that iteration; the
\* steps of two batches never interleave (the steps of an iteration follow the
\* fetch of its batch back to back, and no batch is fetched twice); the model
\* never receives a batch that still holds 'meta_info'.
C6_OneBatchAtATimeInOrder ==
    /\ \A i \in DOMAIN trace :
          IsStep(i) =>
              LET n == StepIndex(trace[i].op)
              IN  /\ i > n
                  /\ trace[i - n].op = "next_batch"
                  /\ \A m \in 0..n :
                        /\ BatchId(i - m) = BatchId(i)
                        /\ trace[i - m].samples = trace[i].samples
                        /\ m < n => trace[i - m].op = IterationSteps[n - m]
    /\ \A i, j \in Ran("next_batch") : BatchId(i) = BatchId(j) => i = j
    /\ \A i \in Ran("forward") : "meta_info" \notin trace[i].keys
    /\ \A i \in Ran("next_batch") : "meta_info" \in trace[i].keys

C6_Witness ==
    /\ Cardinality(Ran("append_loss")) >= 2
    /\ \E i \in Ran("forward") : trace[i].keys = BatchKeys \ {"meta_info"}

\* The epochs whose inner loop has run to its end.
Exhausted(e) ==
    \/ e < epoch
    \/ e = epoch /\ (pc.phase \in {"tail", "epoch", "done"} \/ failure.phase = "tail")

\* C9: every batch holds exactly one sample; in an epoch no sample is visited
\* twice, and once the epoch's loop has ended every sample of the dataset was
\* visited exactly once, so that the epoch made as many optimizer steps as
\* the dataset has samples; the order is the sampler's draw.
C9_EachSampleOncePerEpoch ==
    /\ \A i \in Ran("next_batch") : Cardinality(trace[i].samples) = 1
    /\ \A e \in 1..epoch :
          /\ \A i, j \in RanIn("next_batch", e) :
                trace[i].samples \cap trace[j].samples # {} => i = j
          /\ \A i \in RanIn("next_batch", e) :
                trace[i].samples = {draws[e][trace[i].k]}
          /\ Exhausted(e) =>
                /\ UNION {trace[i].samples : i \in RanIn("next_batch", e)} = 1..dsLen
                /\ Cardinality(RanIn("step", e)) = dsLen
    /\ dsLen <= 1000

C9_Witness ==
    /\ dsLen = 2
    /\ pc.phase = "done"
    /\ draws[1] # draws[2]

(***************************************************************************)
(* The complete-code cell against the step-by-step cells.                  *)
(***************************************************************************)
IsPrefix(a, b) == Len(a) <= Len(b) /\ a = SubSeq(b, 1, Len(a))

HasStmt(t, st) == \E i \in DOMAIN t : t[i].op = st.op /\ t[i].n = st.n /\ t[i].s = st.s

\* C8: run on the same data with the same sampler draws, the complete-code
\* cell performs the same sequence of operations as the step-by-step cells:
\* statement by statement its log follows theirs (the same setup with a
\* dataset limited to 1000 samples, a random sampler and batch size 1, the
\* same per-batch steps on the same batches with the same parameters, the
\* same saves), and a run that reaches the end has the same log, the same
\* number of optimizer steps and the same files.
C8_ScriptFollowsCells ==
    prog = "script" =>
        /\ IsPrefix(trace, trace1)
        /\ HasStmt(trace1, StN("SupervisedDataset", 1000))
        /\ HasStmt(trace1, StS("RandomSampler", "train_dataset"))
        /\ HasStmt(trace1, StN("DataLoader", 1))
        /\ pc.phase = "done" =>
              /\ trace = trace1
              /\ params = 3 * loader.len
              /\ disk = [c \in Components |-> 3]

C8_Witness ==
    /\ prog = "script"
    /\ pc.phase = "done"
    /\ loader.len = 2
    /\ Cardinality(Ran("step")) = 6

(***************************************************************************)
(* Properties of the chat template.                                        *)
(***************************************************************************)
\* The shape of a conversation: its roles and the types of its content blocks.
Shape(conv) ==
    [t \in DOMAIN conv |->
        [role |-> conv[t].role,
         content |-> [b \in DOMAIN conv[t].content |-> DOMAIN conv[t].content[b]]]]

\* C3: every raw sample that has 'prompt', 'response' and 'image' is mapped to
\* exactly two turns: a 'user' turn whose content is an image block followed
\* by a text block carrying the prompt unchanged, and an 'assistant' turn
\* whose content is one text block carrying the response unchanged, together
\* with a metadata record holding exactly the key 'image'; the shape is the
\* same whatever the values of the fields.
C3_FixedConversationalSchema ==
    /\ \A i \in DOMAIN formatted :
          LET f == formatted[i]
          IN  HasFields(f.arg) =>
                /\ f.ok
                /\ Len(f.conv) = 2
                /\ DOMAIN f.conv[1] = {"role", "content"}
                /\ f.conv[1].role = "user"
                /\ Len(f.conv[1].content) = 2
                /\ f.conv[1].content[1] = [type |-> "image"]
                /\ f.conv[1].content[2] = [type |-> "text", text |-> f.arg.prompt]
                /\ DOMAIN f.conv[2] = {"role", "content"}
                /\ f.conv[2].role = "assistant"
                /\ f.conv[2].content = << [type |-> "text", text |-> f.arg.response] >>
                /\ DOMAIN f.meta = {"image"}
    /\ \A i, j \in DOMAIN formatted :
          (formatted[i].ok /\ formatted[j].ok) =>
              Shape(formatted[i].conv) = Shape(formatted[j].conv)

C3_Witness ==
    \E i, j, l \in DOMAIN formatted :
        /\ formatted[i].ok /\ formatted[j].ok /\ formatted[l].ok
        /\ formatted[i].arg.prompt = ""
        /\ formatted[j].arg.prompt # ""
        /\ formatted[j].arg.response # formatted[i].arg.response
        /\ "question_id" \in DOMAIN formatted[l].arg

\* C4: formatting is pure and stateless: a call leaves the raw sample and the
\* formatter as it found them, and two calls on the same raw sample, whatever
\* was formatted in between, return the same result.
C4_FormattingIsPure ==
    /\ \A i \in DOMAIN formatted :
          /\ rawSamples[formatted[i].id] = formatted[i].arg
          /\ formatter = formatted[i].self
    /\ \A i, j \in DOMAIN formatted :
          formatted[i].id = formatted[j].id =>
              /\ formatted[i].ok = formatted[j].ok
              /\ formatted[i].conv = formatted[j].conv
              /\ formatted[i].meta = formatted[j].meta

C4_Witness ==
    /\ Len(formatted) = 3
    /\ formatted[1].id = formatted[3].id
    /\ formatted[2].id # formatted[1].id
    /\ formatted[1].ok
    /\ formatted[1].arg.image.mode = "RGB"
    /\ formatted[1].meta.image.mode = "RGBA"

(***************************************************************************)
(* Properties of sft.yaml.                                                 *)
(***************************************************************************)
ConfigSections ==
    {"train_cfgs", "data_cfgs", "sensor_cfgs", "logger_cfgs", "model_cfgs",
     "lora_cfgs", "bnb_cfgs"}

YamlRead == yline > Len(SftYaml)

\* C7 (as stated): every setting of sft.yaml is nested under one of the seven
\* sections; no setting sits at the top level.
C7_EverySettingNested ==
    \A e \in ycfg : e.section \in ConfigSections

\* C7 (amended): the settings of sft.yaml are nested under the seven sections
\* train_cfgs, data_cfgs, sensor_cfgs, logger_cfgs, model_cfgs, lora_cfgs and
\* bnb_cfgs, each of which holds at least one setting, with one exception:
\* special_tokens (null) sits at the top level, outside every section.
C7_NestedExceptSpecialTokens ==
    /\ ysection \in ConfigSections \cup {""}
    /\ \A e \in ycfg :
          \/ e.section \in ConfigSections
          \/ e.section = "" /\ e.key = "special_tokens" /\ e.value = "null"
    /\ YamlRead =>
          /\ {e.section : e \in ycfg} = ConfigSections \cup {""}
          /\ [section |-> "", key |-> "special_tokens", value |-> "null"] \in ycfg

C7_Witness ==
    /\ YamlRead
    /\ \E e \in ycfg : e.section = ""
    /\ \E e \in ycfg : e.section = "bnb_cfgs"

(***************************************************************************)
(* Properties of the DPO notebook.                                         *)
(***************************************************************************)
DRan(op) == {i \in DOMAIN dtrace : dtrace[i].op = op}

\* C10: for the original and for the trained model alike, every call of
\* model.generate comes after model.eval() was called on that same loaded
\* model and runs inside the no-gradient context, and between the load and
\* the generation the model is never switched to training mode and none of
\* its parameters is updated.
C10_EvalBeforeGenerate ==
    /\ \A i \in DRan("generate") :
          /\ dtrace[i].model > 0
          /\ dtrace[i].evalCalled
          /\ dtrace[i].nograd
          /\ dtrace[i].mode = "eval"
          /\ dtrace[i].params = 0
          /\ \E l, j \in 1..(i - 1) :
                /\ l < j
                /\ dtrace[l].op = "load_model"
                /\ dtrace[j].op = "eval"
                /\ dtrace[j].model = dtrace[i].model
                /\ \A m \in l..i :
                      /\ dtrace[m].op \notin {"load_model", "train", "step"} \/ m = l
                      /\ m > l => /\ dtrace[m].model = dtrace[i].model
                                  /\ dtrace[m].mode = "eval"
                                  /\ dtrace[m].params = 0
    /\ \A i \in DOMAIN dtrace : dtrace[i].nograd => dtrace[i].op \in {"generate", "no_grad_exit"}

C10_Witness ==
    \E i, j \in DRan("generate") :
        /\ dtrace[i].path = "/PATH/TO/YOUR/Llama-3.1-8B-Instruct"
        /\ dtrace[j].path = "/PATH/TO/YOUR/TRAINED_MODEL"
        /\ dtrace[i].model # dtrace[j].model

\* The statement that ran last in the DPO notebook.
DLastOp == IF dtrace = << >> THEN "" ELSE dtrace[Len(dtrace)].op

\* C11: the text the DPO notebook decodes and prints is the decoding of the
\* generated tokens only: the output is the prompt followed by some tokens X,
\* the decoded sequence is exactly X (the output without its first
\* len(input_ids) tokens, so no prompt position is in it), X has at most 2048
\* tokens, and what is printed is the decoding of X.
C11_PrintsGeneratedTokensOnly ==
    DLastOp \in {"decode", "print"} =>
        \E X \in SeqsUpTo(Vocab, 0, Len(doutput)) :
            /\ doutput = dinputs \o X
            /\ Len(X) <= 2048
            /\ Len(X) = Len(doutput) - Len(dinputs)
            /\ dtext = Decode(X)
            /\ DLastOp = "print" =>
                  /\ dprinted # << >>
                  /\ dprinted[Len(dprinted)] = Decode(X)

C11_Witness ==
    /\ DLastOp = "print"
    /\ Len(dprinted) = 2
    /\ Len(dinputs) = 2
    /\ \E k \in DOMAIN dinputs : dinputs[k] \notin SpecialTokens
    /\ doutput = dinputs \o << 1, 0 >>
    /\ dprinted[2] = << "a" >>

====
